---- MODULE Spec2Model ----
(***************************************************************************)
(* Model of the AllEase backend account documents and views:               *)
(*   src/mongodb-user-models.py  User, UserAddress, UserProfile,           *)
(*                               UserSession, LoginAttempt                 *)
(*   src/accounts/models.py      UserLogin                                 *)
(*   src/accounts/views.py       generate_jwt, SignupView, LoginView       *)
(*   src/multiservice_platform/settings.py  SECRET_KEY                     *)
(*   src/setup-django.py, src/setup-django-mongodb.py  main and its steps  *)
(*                                                                         *)
(* Time is a natural number; one unit is one hour (timedelta(hours=1)).    *)
(* A Python value that may be None is a sequence of length at most one:    *)
(* None is <<>> and a value v is <<v>>.  A string whose characters matter  *)
(* (an email, a username) is a sequence of character codes.                *)
(***************************************************************************)
EXTENDS Integers, Sequences, FiniteSets, Bags, TLC

\* ------------------------------------------------------------------ bounds
AddrMaxTime == 2
MaxAddresses == 3

VARIABLES
    now,            \* datetime.utcnow(), in hours
    user,           \* the User document object held by the caller
    db,             \* the users collection: None or the persisted copy of user
    result,         \* what the most recent model-method call returned
    sessions,       \* UserSession objects, by session key
    login_attempts, \* the login_attempts collection, a bag of documents
    user_login,     \* the user_login collection, a set of UserLogin documents
    settings,       \* django.conf.settings as far as the views read it
    request,        \* the most recent HTTP request handled by a view
    response,       \* the JsonResponse returned for it
    inflight,       \* the requests and calls being handled concurrently, by arrival
    setup           \* a run of a setup script's main() and the directory it runs in

vars == <<now, user, db, result, sessions, login_attempts, user_login,
          settings, request, response, inflight, setup>>

None == <<>>

Some(v) == <<v>>

\* Python truthiness of an optional boolean: d.get('is_default')
Truthy(opt) == opt # None /\ opt[1] = TRUE

\* ------------------------------------------------------------ strings
\* "A@x", "a@X", "a@x", "b@x" as character codes
Email_A_x == <<65, 64, 120>>

Email_a_X == <<97, 64, 88>>

Email_a_x == <<97, 64, 120>>

Email_b_x == <<98, 64, 120>>

Emails == {Email_A_x, Email_a_X, Email_b_x}

\* str.lower() on ASCII: 'A'..'Z' (65..90) map to 'a'..'z' (97..122)
Lower(s) == [i \in DOMAIN s |-> IF s[i] \in 65..90 THEN s[i] + 32 ELSE s[i]]

\* ------------------------------------------------------------ User document
UserTypes == {"customer", "vendor"}

ReferralCodes == {"RC1", "RC2"}

\* the referral codes held by stored accounts: User.objects(profile__referral_code=code)
HeldCodes(store) ==
    {c \in ReferralCodes : \E i \in DOMAIN store : store[i].profile.referral_code = Some(c)}

\* the codes the redraw loop of generate_referral_code can end with: those no
\* stored account holds
FreeCodes(store) == ReferralCodes \ HeldCodes(store)

\* a generate_referral_code that draws a code on every call
generate_referral_code_always(profile, draw) ==
    [profile EXCEPT !.referral_code = Some(draw)]

\* UserProfile.generate_referral_code: draw is the code the redraw loop ends with
generate_referral_code(profile, draw) ==
    IF profile.referral_code = None
    THEN [profile EXCEPT !.referral_code = Some(draw)]
    ELSE profile

\* pre_save handler create_user_profile; the profile field defaults to a
\* UserProfile, so a document always carries one
create_user_profile(u, draw) ==
    IF u.has_profile
    THEN u
    ELSE [u EXCEPT !.has_profile = TRUE,
                   !.profile = generate_referral_code([referral_code |-> None], draw)]

\* pre_save handler update_timestamp
update_timestamp(u, t) == [u EXCEPT !.updated_at = t]

\* a clean that gives every account without a referral code one
clean_any_role(u, t, draw) ==
    LET u1 == [u EXCEPT !.updated_at = t]
        u2 == [u1 EXCEPT !.email = Lower(u1.email)]
    IN  [u2 EXCEPT !.profile = generate_referral_code(u2.profile, draw)]

\* User.clean
clean(u, t, draw) ==
    LET u1 == [u EXCEPT !.updated_at = t]
        u2 == [u1 EXCEPT !.email = Lower(u1.email)]
    IN  IF u2.user_type = "customer" /\ u2.profile.referral_code = None
        THEN [u2 EXCEPT !.profile = generate_referral_code(u2.profile, draw)]
        ELSE u2

\* field validation run by Document.save: every embedded address carries its
\* required fields
validate(u) == \A i \in DOMAIN u.addresses : u.addresses[i].valid

\* a save that pushes the last address of the object onto the stored list
\* instead of writing the object's list
save_push(u, store, t, draw) ==
    LET u1 == update_timestamp(create_user_profile(u, draw), t)
        u2 == clean(u1, t, draw)
        u3 == IF store = None \/ u2.addresses = <<>>
              THEN u2
              ELSE [u2 EXCEPT !.addresses =
                       Append(store[1].addresses, u2.addresses[Len(u2.addresses)])]
    IN  [raised |-> ~validate(u2),
         doc    |-> u2,
         store  |-> IF validate(u2) THEN Some(u3) ELSE store]

\* Document.save on a User: the pre_save handlers in connection order, clean,
\* validation, then the write.  A failed validation raises after the in-memory
\* object was touched and before anything is written.
save(u, store, t, draw) ==
    LET u1 == update_timestamp(create_user_profile(u, draw), t)
        u2 == clean(u1, t, draw)
    IN  [raised |-> ~validate(u2),
         doc    |-> u2,
         store  |-> IF validate(u2) THEN Some(u2) ELSE store]

\* the document User.create_user(email, password, user_type=ut) leaves behind
NewUser(email, ut, t) ==
    [email                    |-> Lower(email),
     user_type                |-> ut,
     password                 |-> <<"pbkdf2", 1, "pw1">>,
     email_verified           |-> FALSE,
     is_staff                 |-> FALSE,
     is_superuser             |-> FALSE,
     email_verification_token |-> None,
     password_reset_token     |-> None,
     password_reset_expires   |-> None,
     has_profile              |-> TRUE,
     profile                  |-> [referral_code |-> IF ut = "customer" THEN Some("RC1") ELSE None],
     addresses                |-> <<>>,
     updated_at               |-> t]

\* ------------------------------------------------------------ addresses
\* address_data: the dict handed to add_address; is_default may be absent
AddressData == [is_default : {None, Some(TRUE), Some(FALSE)}, valid : BOOLEAN]

\* UserAddress(**address_data): is_default defaults to False, id is a fresh uuid
UserAddress(address_data, id) ==
    [id         |-> id,
     is_default |-> Truthy(address_data.is_default),
     valid      |-> address_data.valid]

\* add_address that takes the first address's flag as the caller gave it
add_address_as_requested(u, address_data) ==
    LET others == IF Truthy(address_data.is_default)
                  THEN [i \in DOMAIN u.addresses |-> [u.addresses[i] EXCEPT !.is_default = FALSE]]
                  ELSE u.addresses
    IN  [u EXCEPT !.addresses = Append(others, UserAddress(address_data, Len(u.addresses) + 1))]

\* add_address with the loop that unsets the other defaults left out
add_address_keep_defaults(u, address_data) ==
    LET data == IF u.addresses = <<>>
                THEN [address_data EXCEPT !.is_default = Some(TRUE)]
                ELSE address_data
    IN  [u EXCEPT !.addresses = Append(u.addresses, UserAddress(data, Len(u.addresses) + 1))]

\* User.add_address up to the save: the in-memory change
add_address(u, address_data) ==
    LET data == IF u.addresses = <<>>
                THEN [address_data EXCEPT !.is_default = Some(TRUE)]
                ELSE address_data
        others == IF Truthy(data.is_default)
                  THEN [i \in DOMAIN u.addresses |-> [u.addresses[i] EXCEPT !.is_default = FALSE]]
                  ELSE u.addresses
    IN  [u EXCEPT !.addresses = Append(others, UserAddress(data, Len(u.addresses) + 1))]

\* a get_default_address that answers with the last flagged address
get_default_address_last(u) ==
    LET flagged == {i \in DOMAIN u.addresses : u.addresses[i].is_default}
    IN  IF flagged # {}
        THEN Some(u.addresses[CHOOSE i \in flagged : \A j \in flagged : i >= j])
        ELSE IF u.addresses # <<>> THEN Some(u.addresses[1]) ELSE None

\* User.get_default_address
get_default_address(u) ==
    LET flagged == {i \in DOMAIN u.addresses : u.addresses[i].is_default}
    IN  IF flagged # {}
        THEN Some(u.addresses[CHOOSE i \in flagged : \A j \in flagged : i <= j])
        ELSE IF u.addresses # <<>> THEN Some(u.addresses[1]) ELSE None

AddAddress(address_data, draw) ==
    /\ Len(user.addresses) < MaxAddresses
    /\ LET u1 == add_address(user, address_data)
           s  == save(u1, db, now, draw)
       IN  /\ user' = s.doc
           /\ db' = s.store
           /\ result' = [op |-> "add_address", raised |-> s.raised,
                         value |-> Some(u1.addresses[Len(u1.addresses)].id)]
    /\ UNCHANGED <<setup, inflight, now, sessions, login_attempts, user_login, settings, request, response>>

GetDefaultAddress ==
    /\ result' = [op |-> "get_default_address", raised |-> FALSE,
                  value |-> IF get_default_address(user) = None
                            THEN None
                            ELSE Some(get_default_address(user)[1].id)]
    /\ UNCHANGED <<setup, inflight, now, user, db, sessions, login_attempts, user_login, settings,
                   request, response>>

\* C23: an add_address that is saved on an account with no addresses stores
\* the address with is_default true whatever flag was asked for; one that is
\* saved with is_default true asked for on a non-empty list leaves every
\* earlier address with is_default false, and get_default_address then
\* returns the address just added.
C23_FirstAndRequestedDefault ==
    [][\A address_data \in AddressData, draw \in FreeCodes(db) :
          (AddAddress(address_data, draw) /\ ~result'.raised)
          => /\ db' = Some(user')
             /\ user.addresses = <<>>
                => /\ Len(user'.addresses) = 1
                   /\ user'.addresses[1].is_default
             /\ (user.addresses # <<>> /\ address_data.is_default = Some(TRUE))
                => /\ Len(user'.addresses) = Len(user.addresses) + 1
                   /\ \A i \in DOMAIN user.addresses :
                         /\ ~user'.addresses[i].is_default
                         /\ user'.addresses[i].id = user.addresses[i].id
                   /\ get_default_address(user') = Some(user'.addresses[Len(user'.addresses)])
                   /\ result'.value = Some(get_default_address(user')[1].id)]_vars

\* a second address was added with is_default true asked for: the first lost
\* the flag and the second is the stored default
C23_Witness ==
    /\ db = Some(user)
    /\ Len(user.addresses) = 2
    /\ ~user.addresses[1].is_default
    /\ user.addresses[2].is_default
    /\ result.op = "add_address"
    /\ ~result.raised
    /\ result.value = Some(user.addresses[2].id)

AddrTick ==
    /\ now < AddrMaxTime
    /\ now' = now + 1
    /\ UNCHANGED <<setup, inflight, user, db, result, sessions, login_attempts, user_login, settings,
                   request, response>>

NoResult == [op |-> "none", raised |-> FALSE, value |-> None]

NoRequest == [view |-> "none"]

\* no setup script has been started; the directory is empty
NoSetup == [script |-> "none", status |-> "idle", exists |-> FALSE, refused |-> FALSE,
            step |-> 0, outcomes |-> <<>>, value |-> None, runs |-> 0]

\* settings.py line 11: the default of config('SECRET_KEY', ...)
DefaultSecretKey == "django-insecure-change-me"

\* decouple.config(name, default=...): the environment's value, or the default
\* when the environment does not set the name
config(env_value, default) == IF env_value = None THEN default ELSE env_value[1]

\* the settings module as the views read it, for an environment that may set
\* SECRET_KEY and a module that may define JWT_EXPIRATION_SECONDS
Settings(env_secret_key, jwt_expiration_seconds) ==
    [SECRET_KEY             |-> config(env_secret_key, DefaultSecretKey),
     JWT_EXPIRATION_SECONDS |-> jwt_expiration_seconds]

InitAddress ==
    /\ now = 0
    /\ \E ut \in UserTypes : user = NewUser(Email_a_x, ut, 0)
    /\ db = Some(user)
    /\ result = NoResult
    /\ sessions = <<>>
    /\ login_attempts = EmptyBag
    /\ user_login = {}
    /\ settings = Settings(None, None)
    /\ request = NoRequest
    /\ response = NoRequest
    /\ inflight = <<>>
    /\ setup = NoSetup

NextAddress ==
    \/ \E d \in AddressData, draw \in FreeCodes(db) : AddAddress(d, draw)
    \/ GetDefaultAddress
    \/ AddrTick

SpecAddress == InitAddress /\ [][NextAddress]_vars

DefaultCount(addresses) == Cardinality({i \in DOMAIN addresses : addresses[i].is_default})

\* C1: after any sequence of add_address calls from an empty list, a non-empty
\* address list (of the object and of its persisted copy) has exactly one
\* address with is_default = true.
C1_ExactlyOneDefault ==
    /\ user.addresses # <<>> => DefaultCount(user.addresses) = 1
    /\ \A i \in DOMAIN db : db[i].addresses # <<>> => DefaultCount(db[i].addresses) = 1

\* three addresses added, the default moved off the first one, all persisted
C1_Witness ==
    /\ Len(user.addresses) = 3
    /\ ~user.addresses[1].is_default
    /\ user.addresses[1].id = 1
    /\ db = Some(user)

\* ------------------------------------------------------------ passwords
Passwords == {"pw1", "pw2"}

Salts == {1, 2}

\* django.contrib.auth.hashers.make_password: a salted one-way encoding; the
\* model keeps the salt and an injective digest of (salt, password)
make_password(raw_password, salt) == <<"pbkdf2", salt, raw_password>>

\* a check that accepts every password once a hash is stored
check_password_any(raw_password, encoded) == encoded[1] = "pbkdf2"

\* django.contrib.auth.hashers.check_password as User.check_password calls it
check_password(raw_password, encoded) == encoded = make_password(raw_password, encoded[2])

\* User.set_password: changes the object, does not save
SetPassword(raw_password, salt) ==
    /\ user' = [user EXCEPT !.password = make_password(raw_password, salt)]
    /\ result' = [op |-> "set_password", raised |-> FALSE, value |-> None]
    /\ UNCHANGED <<setup, inflight, now, db, sessions, login_attempts, user_login, settings, request, response>>

\* User.check_password: reads the object, changes nothing
CheckPassword(raw_password) ==
    /\ result' = [op |-> "check_password", raised |-> FALSE,
                  value |-> Some(check_password(raw_password, user.password))]
    /\ UNCHANGED <<setup, inflight, now, user, db, sessions, login_attempts, user_login, settings, request, response>>

\* ------------------------------------------------------------ email verification
VerifyMaxTime == 2

\* the values secrets.token_urlsafe(32) may return
Tokens == {"t1", "t2"}

\* what a caller may pass as token: a string, or None
TokenArgs == {None} \cup {Some(tok) : tok \in Tokens}

\* User.generate_email_verification_token
GenerateEmailVerificationToken(tok, draw) ==
    /\ LET s == save([user EXCEPT !.email_verification_token = Some(tok)], db, now, draw)
       IN  /\ user' = s.doc
           /\ db' = s.store
           /\ result' = [op |-> "generate_email_verification_token", raised |-> s.raised,
                         value |-> Some(tok)]
    /\ UNCHANGED <<setup, inflight, now, sessions, login_attempts, user_login, settings, request, response>>

\* verify_email that sets the flag on a match but leaves the stored token in place
verify_email_keep_token(u, store, token, t, draw) ==
    IF u.email_verification_token = token
    THEN LET s == save([u EXCEPT !.email_verified = TRUE], store, t, draw)
         IN  [value |-> TRUE, raised |-> s.raised, doc |-> s.doc, store |-> s.store]
    ELSE [value |-> FALSE, raised |-> FALSE, doc |-> u, store |-> store]

\* User.verify_email: Python == on the stored field and the argument
verify_email(u, store, token, t, draw) ==
    IF u.email_verification_token = token
    THEN LET s == save([u EXCEPT !.email_verified = TRUE,
                                 !.email_verification_token = None], store, t, draw)
         IN  [value |-> TRUE, raised |-> s.raised, doc |-> s.doc, store |-> s.store]
    ELSE [value |-> FALSE, raised |-> FALSE, doc |-> u, store |-> store]

VerifyEmail(token, draw) ==
    /\ LET r == verify_email(user, db, token, now, draw)
       IN  /\ user' = r.doc
           /\ db' = r.store
           /\ result' = [op |-> "verify_email", raised |-> r.raised, value |-> Some(r.value)]
    /\ UNCHANGED <<setup, inflight, now, sessions, login_attempts, user_login, settings, request, response>>

VerifyTick ==
    /\ now < VerifyMaxTime
    /\ now' = now + 1
    /\ UNCHANGED <<setup, inflight, user, db, result, sessions, login_attempts, user_login, settings,
                   request, response>>

InitVerify == InitAddress

NextVerify ==
    \/ \E tok \in Tokens, draw \in FreeCodes(db) : GenerateEmailVerificationToken(tok, draw)
    \/ \E token \in TokenArgs, draw \in FreeCodes(db) : VerifyEmail(token, draw)
    \/ \E p \in Passwords, salt \in Salts : SetPassword(p, salt)
    \/ VerifyTick

SpecVerify == InitVerify /\ [][NextVerify]_vars

\* C10: verify_email(token) returns true, sets email_verified and clears the
\* stored token (and saves) iff the supplied token equals the stored token;
\* otherwise it returns false, changes no field of the account and saves nothing.
C10_VerifyEmailIffMatch ==
    [][\A token \in TokenArgs, draw \in FreeCodes(db) :
          VerifyEmail(token, draw) =>
              IF user.email_verification_token = token
              THEN /\ result'.value = Some(TRUE)
                   /\ user'.email_verified
                   /\ user'.email_verification_token = None
                   /\ db' = Some(user')
              ELSE /\ result'.value = Some(FALSE)
                   /\ user' = user
                   /\ db' = db]_vars

\* a verify_email call with the outstanding token succeeded and was persisted,
\* on an object whose unsaved password change makes a save observable
C10_Witness ==
    /\ result.op = "verify_email"
    /\ result.value = Some(TRUE)
    /\ user.email_verified
    /\ user.email_verification_token = None
    /\ db = Some(user)
    /\ user.password # <<"pbkdf2", 1, "pw1">>

\* C11 as stated: verify_email succeeds only with the outstanding generated
\* token, which it consumes; with no token outstanding it succeeds for no
\* argument, None included.
C11_OneShotToken ==
    [][\A token \in TokenArgs, draw \in FreeCodes(db) :
          VerifyEmail(token, draw) =>
              /\ result'.value = Some(TRUE) =>
                    /\ user.email_verification_token # None
                    /\ token = user.email_verification_token
                    /\ user'.email_verification_token = None
              /\ user.email_verification_token = None => result'.value = Some(FALSE)]_vars

\* ------------------------------------------------------------ UserSession
SessMaxTime == 3

MaxSessions == 1

MaxTtl == 1

\* UserSession(user=..., session_key=..., expires_at=...).save(): the other
\* fields take their defaults; expires_at has none and may be left out
NewSession(expires_at, t) ==
    [created_at |-> t,
     expires_at |-> expires_at,
     is_active  |-> TRUE,
     logout_at  |-> None,
     stored     |-> TRUE]

\* is_expired that reports only sessions still marked active
is_expired_if_active(s, t) == s.is_active /\ t > s.expires_at[1]

\* UserSession.is_expired, for a session whose expires_at is set
is_expired(s, t) == t > s.expires_at[1]

\* logout that clears the flag without stamping logout_at
logout_no_stamp(s, t) == [s EXCEPT !.is_active = FALSE, !.stored = TRUE]

\* UserSession.logout; save() writes the document back (an upsert)
logout(s, t) == [s EXCEPT !.is_active = FALSE, !.logout_at = Some(t), !.stored = TRUE]

CreateSession(expires_at) ==
    /\ Len(sessions) < MaxSessions
    /\ sessions' = Append(sessions, NewSession(expires_at, now))
    /\ result' = [op |-> "create_session", raised |-> FALSE, value |-> None]
    /\ UNCHANGED <<setup, inflight, now, user, db, login_attempts, user_login, settings, request, response>>

\* a call of is_expired(): datetime > None raises TypeError
IsExpired(k) ==
    /\ result' = [op |-> "is_expired", key |-> k,
                  raised |-> sessions[k].expires_at = None,
                  value |-> IF sessions[k].expires_at = None
                            THEN None
                            ELSE Some(is_expired(sessions[k], now))]
    /\ UNCHANGED <<setup, inflight, now, user, db, sessions, login_attempts, user_login, settings,
                   request, response>>

Logout(k) ==
    /\ sessions' = [sessions EXCEPT ![k] = logout(sessions[k], now)]
    /\ result' = [op |-> "logout", key |-> k, raised |-> FALSE, value |-> None]
    /\ UNCHANGED <<setup, inflight, now, user, db, login_attempts, user_login, settings, request, response>>

\* the TTL index on expires_at (expireAfterSeconds 0): the server deletes the
\* record of a session whose expires_at has been reached; objects already
\* loaded stay in the callers' hands
Reap(k) ==
    /\ sessions[k].stored
    /\ sessions[k].expires_at # None
    /\ sessions[k].expires_at[1] <= now
    /\ sessions' = [sessions EXCEPT ![k].stored = FALSE]
    /\ UNCHANGED <<setup, inflight, now, user, db, result, login_attempts, user_login, settings,
                   request, response>>

SessTick ==
    /\ now < SessMaxTime
    /\ now' = now + 1
    /\ UNCHANGED <<setup, inflight, user, db, result, sessions, login_attempts, user_login, settings,
                   request, response>>

InitSession == InitAddress /\ user.user_type = "customer"

NextSession ==
    \/ \E ttl \in 0..MaxTtl : CreateSession(Some(now + ttl))
    \/ CreateSession(None)
    \/ \E k \in DOMAIN sessions : IsExpired(k)
    \/ \E k \in DOMAIN sessions : Logout(k)
    \/ \E k \in DOMAIN sessions : Reap(k)
    \/ SessTick

SpecSession == InitSession /\ [][NextSession]_vars

C7_TtlZeroExpiredAtOnce ==
    [][\A k \in DOMAIN sessions :
          (/\ IsExpired(k)
           /\ sessions[k].expires_at = Some(sessions[k].created_at)
           /\ now >= sessions[k].expires_at[1])
          => result'.value = Some(TRUE)]_vars

\* C8 as stated: a second logout of a logged-out session raises nothing, keeps
\* is_active false and leaves logout_at as the first call set it.
C8_LogoutIdempotent ==
    [][\A k \in DOMAIN sessions :
          (Logout(k) /\ ~sessions[k].is_active) =>
              /\ ~result'.raised
              /\ ~sessions'[k].is_active
              /\ sessions'[k].logout_at = sessions[k].logout_at]_vars

\* C9: in every reachable state of every session, is_active = false implies
\* logout_at is set.
C9_InactiveHasLogoutAt ==
    \A k \in DOMAIN sessions : ~sessions[k].is_active => sessions[k].logout_at # None

\* a session logged out some time after it was created
C9_Witness ==
    \E k \in DOMAIN sessions :
        /\ ~sessions[k].is_active
        /\ sessions[k].logout_at # None
        /\ sessions[k].logout_at[1] > sessions[k].created_at
        /\ result.op = "logout"

\* ------------------------------------------------------------ LoginAttempt
GuardMaxTime == 2

GuardMaxStored == 2

\* the arguments the guard is exercised with
RecordedEmails == {Email_A_x, Email_b_x}

QueriedEmails == {Email_a_X, Email_b_x}

AttemptLimits == {1, 2}

WindowHours == {1, 2}

\* is_blocked(cls, email, max_attempts=5, hours=1)
DefaultMaxAttempts == 5

DefaultHours == 1

IPs == {"ip1", "ip2"}

\* LoginAttempt.record_attempt: the document it saves; attempted_at defaults
\* to datetime.utcnow
record_attempt(email, ip_address, success, t) ==
    [email        |-> Lower(email),
     ip_address   |-> ip_address,
     success      |-> success,
     attempted_at |-> t]

\* the number of documents of a collection that a query selects
Count(collection, selected) == BagCardinality([r \in selected |-> collection[r]])

\* get_recent_failures that counts the failures of all times
get_recent_failures_no_cutoff(attempts, email, hours, t) ==
    Count(attempts, {r \in BagToSet(attempts) :
                        /\ r.email = Lower(email)
                        /\ r.success = FALSE})

\* get_recent_failures that looks the email up as it was given
get_recent_failures_exact_case(attempts, email, hours, t) ==
    LET cutoff == t - hours
    IN  Count(attempts, {r \in BagToSet(attempts) :
                            /\ r.email = email
                            /\ r.success = FALSE
                            /\ r.attempted_at >= cutoff})

\* get_recent_failures without the success=False filter
get_recent_failures_any_outcome(attempts, email, hours, t) ==
    LET cutoff == t - hours
    IN  Count(attempts, {r \in BagToSet(attempts) :
                            /\ r.email = Lower(email)
                            /\ r.attempted_at >= cutoff})

\* LoginAttempt.get_recent_failures
get_recent_failures(attempts, email, hours, t) ==
    LET cutoff == t - hours
    IN  Count(attempts, {r \in BagToSet(attempts) :
                            /\ r.email = Lower(email)
                            /\ r.success = FALSE
                            /\ r.attempted_at >= cutoff})

\* LoginAttempt.is_blocked
is_blocked(attempts, email, max_attempts, hours, t) ==
    get_recent_failures(attempts, email, hours, t) >= max_attempts

RecordAttempt(email, ip_address, success) ==
    /\ login_attempts' = login_attempts (+) SetToBag({record_attempt(email, ip_address, success, now)})
    /\ result' = [op |-> "record_attempt", raised |-> FALSE, value |-> None]
    /\ UNCHANGED <<setup, inflight, now, user, db, sessions, user_login, settings, request, response>>

IsBlocked(email, max_attempts, hours) ==
    /\ result' = [op |-> "is_blocked", raised |-> FALSE,
                  value |-> Some(is_blocked(login_attempts, email, max_attempts, hours, now))]
    /\ UNCHANGED <<setup, inflight, now, user, db, sessions, login_attempts, user_login, settings,
                   request, response>>

GuardTick ==
    /\ now < GuardMaxTime
    /\ now' = now + 1
    /\ UNCHANGED <<setup, inflight, user, db, result, sessions, login_attempts, user_login, settings,
                   request, response>>

InitGuard == InitAddress /\ user.user_type = "customer"

NextGuard ==
    \/ /\ BagCardinality(login_attempts) < GuardMaxStored
       /\ \E email \in RecordedEmails, ip \in IPs, success \in BOOLEAN :
             RecordAttempt(email, ip, success)
    \/ \E email \in QueriedEmails, m \in AttemptLimits, h \in WindowHours :
          IsBlocked(email, m, h)
    \/ GuardTick

SpecGuard == InitGuard /\ [][NextGuard]_vars

\* the stored attempts the claim counts: same email after lowercasing, failed,
\* attempted within [now - hours, now]
C3_FailuresInWindow(email, hours) ==
    Count(login_attempts, {r \in BagToSet(login_attempts) :
                              /\ Lower(r.email) = Lower(email)
                              /\ ~r.success
                              /\ now - hours <= r.attempted_at
                              /\ r.attempted_at <= now})

\* C3: is_blocked(email, max_attempts, hours) returns true iff the number of
\* stored attempts with that email (lowercased), success = false and
\* attempted_at in [now - hours, now] is >= max_attempts; successes, other
\* emails and IP addresses do not count.
C3_BlockedIffFailuresInWindow ==
    \A email \in QueriedEmails, m \in AttemptLimits, h \in WindowHours :
        is_blocked(login_attempts, email, m, h, now) <=> C3_FailuresInWindow(email, h) >= m

\* is_blocked answered true while the store holds two failures of one email
\* recorded from different IP addresses under another case of the email
C3_Witness ==
    /\ result.op = "is_blocked"
    /\ result.value = Some(TRUE)
    /\ \E r1, r2 \in BagToSet(login_attempts) :
          /\ r1.email = Email_a_x
          /\ r2.email = Email_a_x
          /\ ~r1.success
          /\ ~r2.success
          /\ r1.ip_address # r2.ip_address
    /\ is_blocked(login_attempts, Email_a_X, 2, 1, now)

\* the case variants of the emails recorded and queried
CaseVariants == {Email_A_x, Email_a_X, Email_a_x, Email_b_x}

\* C26: every stored attempt holds its email lowercased, and
\* get_recent_failures and is_blocked answer alike for any two case variants
\* of one email, counting the failures recorded under any of them.
C26_ThrottlingIgnoresCase ==
    /\ \A r \in BagToSet(login_attempts) : r.email = Lower(r.email)
    /\ \A e1, e2 \in CaseVariants, h \in WindowHours :
          Lower(e1) = Lower(e2)
          => /\ get_recent_failures(login_attempts, e1, h, now)
                   = get_recent_failures(login_attempts, e2, h, now)
             /\ get_recent_failures(login_attempts, e1, h, now)
                   = Count(login_attempts, {r \in BagToSet(login_attempts) :
                                               /\ r.email = Lower(e2)
                                               /\ ~r.success
                                               /\ r.attempted_at >= now - h})
             /\ \A m \in AttemptLimits :
                   is_blocked(login_attempts, e1, m, h, now) = is_blocked(login_attempts, e2, m, h, now)

\* a failure recorded as "A@x" is stored as "a@x" and counted for "a@X"
C26_Witness ==
    /\ \E r \in BagToSet(login_attempts) : r.email = Email_a_x /\ ~r.success /\ r.attempted_at = now
    /\ get_recent_failures(login_attempts, Email_a_X, 1, now) = 1
    /\ ~is_blocked(login_attempts, Email_a_X, 2, 1, now)
    /\ is_blocked(login_attempts, Email_a_X, 1, 1, now)
    /\ result = [op |-> "is_blocked", raised |-> FALSE, value |-> Some(TRUE)]

LoginMaxTime == 1

LoginMaxStored == 5

\* request.data.get("username"): what signup stored and what login looks up
Usernames == {Email_A_x, Email_a_X, Email_b_x}

\* werkzeug.security.generate_password_hash: method, salt and an injective
\* digest of (salt, password)
generate_password_hash(password, salt) == <<"scrypt", salt, password>>

\* werkzeug.security.check_password_hash as UserLogin.check_password calls it
check_password_hash(pwhash, password) == pwhash = generate_password_hash(password, pwhash[2])

\* the document SignupView.post saves: UserLogin(username, email) after set_password
UserLoginDoc(id, username, email, password, salt) ==
    [id       |-> id,
     username |-> username,
     email    |-> email,
     password |-> generate_password_hash(password, salt)]

\* generate_jwt: the payload is built first and reads
\* settings.JWT_EXPIRATION_SECONDS (an AttributeError when the settings module
\* does not define it) and datetime.utcnow(); then settings.SECRET_KEY is read,
\* which django.conf refuses with ImproperlyConfigured when it is empty; the
\* token is the payload signed under the key
generate_jwt(user_id, cfg, t) ==
    IF cfg.JWT_EXPIRATION_SECONDS = None
    THEN [raised |-> TRUE, error |-> Some("AttributeError"), token |-> None]
    ELSE IF cfg.SECRET_KEY = ""
    THEN [raised |-> TRUE, error |-> Some("ImproperlyConfigured"), token |-> None]
    ELSE [raised |-> FALSE,
          error  |-> None,
          token  |-> Some([user_id |-> user_id,
                           exp     |-> t + cfg.JWT_EXPIRATION_SECONDS[1],
                           iat     |-> t,
                           key     |-> cfg.SECRET_KEY])]

\* LoginView.post answering an unknown username with its own error
login_post_reveals_unknown(collection, cfg, username, password, t) ==
    LET found == {u \in collection : u.username = username}
    IN  IF found = {}
        THEN [view |-> "login", status |-> 404, error |-> Some("User not found"), token |-> None]
        ELSE LET u == CHOOSE u \in found : TRUE
                 jwt == generate_jwt(u.id, cfg, t)
             IN  IF ~check_password_hash(u.password, password)
                 THEN [view |-> "login", status |-> 401,
                       error |-> Some("Invalid credentials"), token |-> None]
                 ELSE IF jwt.raised
                 THEN [view |-> "login", status |-> 500,
                       error |-> jwt.error, token |-> None]
                 ELSE [view |-> "login", status |-> 200, error |-> None, token |-> jwt.token]

\* LoginView.post: the response for a request; username is unique in the
\* collection, so .first() is the one match or None
login_post(collection, cfg, username, password, t) ==
    LET found == {u \in collection : u.username = username}
    IN  IF found = {} \/ ~check_password_hash((CHOOSE u \in found : TRUE).password, password)
        THEN [view |-> "login", status |-> 401,
              error |-> Some("Invalid credentials"), token |-> None]
        ELSE LET jwt == generate_jwt((CHOOSE u \in found : TRUE).id, cfg, t)
             IN  IF jwt.raised
                 THEN [view |-> "login", status |-> 500,
                       error |-> jwt.error, token |-> None]
                 ELSE [view |-> "login", status |-> 200, error |-> None, token |-> jwt.token]

Login(username, password) ==
    /\ request' = [view |-> "login", username |-> username, password |-> password]
    /\ response' = login_post(user_login, settings, username, password, now)
    /\ UNCHANGED <<setup, inflight, now, user, db, result, sessions, login_attempts, user_login, settings>>

LoginTick ==
    /\ now < LoginMaxTime
    /\ now' = now + 1
    /\ UNCHANGED <<setup, inflight, user, db, result, sessions, login_attempts, user_login, settings,
                   request, response>>

\* the collection holds the accounts of earlier signups; the settings module
\* either lacks JWT_EXPIRATION_SECONDS (as src/multiservice_platform/settings.py
\* does) or defines it
InitLogin ==
    /\ now = 0
    /\ user = NewUser(Email_a_x, "customer", 0)
    /\ db = Some(user)
    /\ result = NoResult
    /\ sessions = <<>>
    /\ login_attempts = EmptyBag
    /\ user_login = {UserLoginDoc(1, Email_A_x, Email_A_x, "pw1", 1)}
    /\ settings \in {Settings(None, None), Settings(None, Some(1))}
    /\ request = NoRequest
    /\ response = NoRequest
    /\ inflight = <<>>
    /\ setup = NoSetup

NextLogin ==
    \/ \E username \in Usernames, password \in Passwords : Login(username, password)
    \/ /\ BagCardinality(login_attempts) < LoginMaxStored
       /\ \E email \in Usernames, success \in BOOLEAN : RecordAttempt(email, "ip1", success)
    \/ LoginTick

SpecLogin == InitLogin /\ [][NextLogin]_vars

\* C2 as stated, on a deployment whose settings define the token lifetime: a
\* login with the CORRECT password for an email the guard reports blocked (5
\* failures within the last hour) fails with AccountLocked and issues no token.
C2_LockedLoginFails ==
    [][\A username \in Usernames, password \in Passwords :
          (/\ Login(username, password)
           /\ settings.JWT_EXPIRATION_SECONDS # None
           /\ \E u \in user_login : u.username = username /\ u.password[3] = password
           /\ is_blocked(login_attempts, username, DefaultMaxAttempts, DefaultHours, now))
          => /\ response'.status # 200
             /\ response'.error = Some("Account locked")
             /\ response'.token = None]_vars

\* C4 as stated: a login that fails on credentials appends one failed
\* LoginAttempt for the lowercased email; a login that succeeds appends one
\* successful LoginAttempt and creates an active session.
C4_LoginRecordsAttempt ==
    [][\A username \in Usernames, password \in Passwords :
          Login(username, password) =>
              /\ response'.status = 401 =>
                    login_attempts' = login_attempts (+)
                        SetToBag({record_attempt(username, "ip1", FALSE, now)})
              /\ response'.status = 200 =>
                    /\ login_attempts' = login_attempts (+)
                          SetToBag({record_attempt(username, "ip1", TRUE, now)})
                    /\ Len(sessions') = Len(sessions) + 1
                    /\ sessions'[Len(sessions')].is_active]_vars

\* a login names no account, or names one and carries another password than
\* the one the account was given
C5_BadCredentials(username, password) ==
    \/ ~\E u \in user_login : u.username = username
    \/ \E u \in user_login : u.username = username /\ u.password[3] # password

SignupEmails == {Email_A_x, Email_b_x}

\* UserLogin.objects(username=username).first(): an exact, case-sensitive match
signup_exists(collection, username) == \E u \in collection : u.username = username

\* UserLogin.save() on a collection without the unique indexes
save_user_login_no_index(collection, doc) ==
    [raised |-> FALSE, collection |-> collection \cup {doc}]

\* UserLogin.save(): username and email each carry a unique index, so the write
\* of a document that repeats either raises NotUniqueError and stores nothing
save_user_login(collection, doc) ==
    IF \E u \in collection : u.username = doc.username \/ u.email = doc.email
    THEN [raised |-> TRUE, collection |-> collection]
    ELSE [raised |-> FALSE, collection |-> collection \cup {doc}]

\* SignupView.post from the construction of the document on (lines 33-38);
\* an exception that escapes the view is answered with status 500
signup_write(collection, cfg, username, email, password, salt, t) ==
    LET doc == UserLoginDoc(Cardinality(collection) + 1, username, email, password, salt)
        s   == save_user_login(collection, doc)
        jwt == generate_jwt(doc.id, cfg, t)
    IN  IF s.raised
        THEN [collection |-> s.collection,
              response   |-> [view |-> "signup", status |-> 500,
                              error |-> Some("NotUniqueError"), token |-> None]]
        ELSE IF jwt.raised
        THEN [collection |-> s.collection,
              response   |-> [view |-> "signup", status |-> 500,
                              error |-> jwt.error, token |-> None]]
        ELSE [collection |-> s.collection,
              response   |-> [view |-> "signup", status |-> 201,
                              error |-> None, token |-> jwt.token]]

\* SignupView.post
signup_post(collection, cfg, username, email, password, salt, t) ==
    IF signup_exists(collection, username)
    THEN [collection |-> collection,
          response   |-> [view |-> "signup", status |-> 400,
                          error |-> Some("Username already exists"), token |-> None]]
    ELSE signup_write(collection, cfg, username, email, password, salt, t)

Signup(username, email, password, salt) ==
    /\ request' = [view |-> "signup", username |-> username, email |-> email,
                   password |-> password]
    /\ LET r == signup_post(user_login, settings, username, email, password, salt, now)
       IN  /\ user_login' = r.collection
           /\ response' = r.response
    /\ UNCHANGED <<setup, inflight, now, user, db, result, sessions, login_attempts, settings>>

\* no account has signed up yet
InitSignup ==
    /\ now = 0
    /\ user = NewUser(Email_a_x, "customer", 0)
    /\ db = Some(user)
    /\ result = NoResult
    /\ sessions = <<>>
    /\ login_attempts = EmptyBag
    /\ user_login = {}
    /\ settings \in {Settings(None, None), Settings(None, Some(1))}
    /\ request = NoRequest
    /\ response = NoRequest
    /\ inflight = <<>>
    /\ setup = NoSetup

NextSignup ==
    \/ \E username \in Usernames, email \in SignupEmails, password \in Passwords, salt \in Salts :
          Signup(username, email, password, salt)
    \/ \E username \in Usernames, password \in Passwords : Login(username, password)
    \/ LoginTick

SpecSignup == InitSignup /\ [][NextSignup]_vars

\* C12 as stated: a signup whose email or username already belongs to a stored
\* account is answered 400 (a duplicate error, not a raw persistence
\* exception), stores nothing, leaves the stored accounts unchanged and issues
\* no token.
C12_DuplicateSignupIs400 ==
    [][\A username \in Usernames, email \in SignupEmails, password \in Passwords, salt \in Salts :
          (/\ Signup(username, email, password, salt)
           /\ \E u \in user_login : u.email = email \/ u.username = username)
          => /\ response'.status = 400
             /\ response'.token = None
             /\ user_login' = user_login]_vars


\* ------------------------------------------------------------ concurrent signups
MaxInflight == 2

\* SignupView.post, lines 26-28: a request arrives and its fields are read
SignupReceive(username, email, password) ==
    /\ Len(inflight) < MaxInflight
    /\ inflight' = Append(inflight, [pc |-> "check", username |-> username, email |-> email,
                                     password |-> password, response |-> NoRequest])
    /\ UNCHANGED <<setup, now, user, db, result, sessions, login_attempts, user_login, settings,
                   request, response>>

\* SignupView.post, lines 30-31: the existence check, a read of the collection
SignupCheck(i) ==
    /\ inflight[i].pc = "check"
    /\ inflight' = [inflight EXCEPT ![i] =
                       IF signup_exists(user_login, @.username)
                       THEN [@ EXCEPT !.pc = "done",
                                      !.response = [view |-> "signup", status |-> 400,
                                                    error |-> Some("Username already exists"),
                                                    token |-> None]]
                       ELSE [@ EXCEPT !.pc = "write"]]
    /\ UNCHANGED <<setup, now, user, db, result, sessions, login_attempts, user_login, settings,
                   request, response>>

\* SignupView.post, lines 33-38: the save, a write of the collection, and the answer
SignupWrite(i) ==
    /\ inflight[i].pc = "write"
    /\ LET r == signup_write(user_login, settings, inflight[i].username, inflight[i].email,
                             inflight[i].password, 1, now)
       IN  /\ user_login' = r.collection
           /\ inflight' = [inflight EXCEPT ![i].pc = "done", ![i].response = r.response]
    /\ UNCHANGED <<setup, now, user, db, result, sessions, login_attempts, settings, request, response>>

InitSignupRace == InitSignup

NextSignupRace ==
    \/ \E username \in Usernames, email \in SignupEmails, password \in Passwords :
          SignupReceive(username, email, password)
    \/ \E i \in DOMAIN inflight : SignupCheck(i)
    \/ \E i \in DOMAIN inflight : SignupWrite(i)

SpecSignupRace == InitSignupRace /\ [][NextSignupRace]_vars

\* two requests name the same unique identifier
C13_SameIdentifier(a, b) == a.username = b.username \/ a.email = b.email

\* C13: however concurrent signups with the same username or email interleave
\* their existence check and their save, at most one account with that
\* identifier is stored, of two such requests that both reached the save one
\* had its write fail, and a token names an account that was stored for the
\* request.
C13_RaceFailsTheWrite ==
    /\ \A u1, u2 \in user_login : C13_SameIdentifier(u1, u2) => u1 = u2
    /\ \A i, j \in DOMAIN inflight :
          (/\ i # j
           /\ inflight[i].pc = "done"
           /\ inflight[j].pc = "done"
           /\ inflight[i].response.status # 400
           /\ inflight[j].response.status # 400
           /\ C13_SameIdentifier(inflight[i], inflight[j]))
          => (\/ inflight[i].response.error = Some("NotUniqueError")
              \/ inflight[j].response.error = Some("NotUniqueError"))
    /\ \A i \in DOMAIN inflight :
          (inflight[i].pc = "done" /\ inflight[i].response.token # None)
          => \E u \in user_login : /\ u.id = inflight[i].response.token[1].user_id
                                   /\ u.username = inflight[i].username
                                   /\ u.email = inflight[i].email

\* two signups with one username both passed the existence check; one was
\* stored and answered 201, the other's save failed
C13_Witness ==
    /\ Len(inflight) = 2
    /\ inflight[1].username = inflight[2].username
    /\ inflight[1].pc = "done"
    /\ inflight[2].pc = "done"
    /\ inflight[2].response.status = 201
    /\ inflight[1].response.error = Some("NotUniqueError")
    /\ Cardinality(user_login) = 1


\* C14: a login whose identifier is a case variant of a signed-up identifier,
\* with that account's password, succeeds: 200 and a token.
C14_LoginAnyCaseVariant ==
    [][\A username \in Usernames, password \in Passwords :
          (/\ Login(username, password)
           /\ settings.JWT_EXPIRATION_SECONDS # None
           /\ \E u \in user_login : /\ Lower(u.username) = Lower(username)
                                    /\ check_password_hash(u.password, password))
          => (response'.status = 200 /\ response'.token # None)]_vars


\* C15: a signup that stores an account answers 201 with a token whose user_id
\* is the id of the account just stored; a login whose password was verified
\* against an account answers 200 with a token whose user_id is that account's
\* id; every other signup or login answers without a token.
C15_TokenNamesTheAccount ==
    [][/\ \A username \in Usernames, email \in SignupEmails, password \in Passwords, salt \in Salts :
             Signup(username, email, password, salt) =>
                 IF user_login' # user_login
                 THEN /\ response'.status = 201
                      /\ response'.token # None
                      /\ \E u \in user_login' \ user_login : response'.token[1].user_id = u.id
                 ELSE response'.token = None
       /\ \A username \in Usernames, password \in Passwords :
             Login(username, password) =>
                 IF \E u \in user_login : /\ u.username = username
                                          /\ check_password_hash(u.password, password)
                 THEN /\ response'.status = 200
                      /\ response'.token # None
                      /\ \E u \in user_login : /\ u.username = username
                                               /\ response'.token[1].user_id = u.id
                 ELSE response'.token = None]_vars


\* ------------------------------------------------------------ password round trip
InitPassword == InitSignup

NextPassword ==
    \/ \E raw_password \in Passwords, salt \in Salts : SetPassword(raw_password, salt)
    \/ \E raw_password \in Passwords : CheckPassword(raw_password)
    \/ \E password \in Passwords, salt \in Salts : Signup(Email_A_x, Email_A_x, password, salt)
    \/ \E password \in Passwords : Login(Email_A_x, password)

SpecPassword == InitPassword /\ [][NextPassword]_vars

CreateEmails == {<<>>, Email_A_x, Email_b_x}

\* user_type as create_superuser's extra_fields may carry it
SuperuserTypes == {None, Some("customer")}

\* **extra_fields as far as the factories read it; None is a key not passed
ExtraFields(user_type, is_staff, is_superuser) ==
    [user_type |-> user_type, is_staff |-> is_staff, is_superuser |-> is_superuser]

\* the value of a keyword argument, or the field's default when it is not passed
get(passed, default) == IF passed = None THEN default ELSE passed[1]

\* cls(email=email.lower(), **extra_fields): a fresh document; password is not
\* set yet, profile is the default UserProfile()
User(email, extra_fields) ==
    [email                    |-> Lower(email),
     user_type                |-> get(extra_fields.user_type, "customer"),
     password                 |-> None,
     email_verified           |-> FALSE,
     is_staff                 |-> get(extra_fields.is_staff, FALSE),
     is_superuser             |-> get(extra_fields.is_superuser, FALSE),
     email_verification_token |-> None,
     password_reset_token     |-> None,
     password_reset_expires   |-> None,
     has_profile              |-> TRUE,
     profile                  |-> [referral_code |-> None],
     addresses                |-> <<>>,
     updated_at               |-> 0]

\* create_user that stores the password as it was given
create_user_plain(email, password, salt, extra_fields, store, t, draw) ==
    IF email = <<>>
    THEN [raised |-> Some("ValueError"), doc |-> None, store |-> store]
    ELSE LET s == save(clean([User(email, extra_fields) EXCEPT !.password = password], t, draw),
                       store, t, draw)
         IN  [raised |-> None, doc |-> Some(s.doc), store |-> s.store]

\* User.create_user(email, password, **extra_fields).  The email index is
\* unique: the save of a second account with a stored email raises
\* NotUniqueError and writes nothing.
create_user(email, password, salt, extra_fields, store, t, draw) ==
    IF email = <<>>
    THEN [raised |-> Some("ValueError"), doc |-> None, store |-> store]
    ELSE LET u1 == [User(email, extra_fields) EXCEPT !.password = make_password(password, salt)]
             u2 == clean(u1, t, draw)
             s  == save(u2, None, t, draw)
         IN  IF store # None /\ store[1].email = u2.email
             THEN [raised |-> Some("NotUniqueError"), doc |-> Some(s.doc), store |-> store]
             ELSE [raised |-> None, doc |-> Some(s.doc), store |-> s.store]

\* create_superuser without the two checks of the flags
create_superuser_unchecked(email, password, salt, extra_fields, store, t, draw) ==
    create_user(email, password, salt,
                ExtraFields(Some(get(extra_fields.user_type, "admin")),
                            Some(get(extra_fields.is_staff, TRUE)),
                            Some(get(extra_fields.is_superuser, TRUE))),
                store, t, draw)

\* User.create_superuser(email, password, **extra_fields): the setdefault
\* calls, the two checks, then create_user
create_superuser(email, password, salt, extra_fields, store, t, draw) ==
    LET defaulted == ExtraFields(Some(get(extra_fields.user_type, "admin")),
                                 Some(get(extra_fields.is_staff, TRUE)),
                                 Some(get(extra_fields.is_superuser, TRUE)))
    IN  IF defaulted.is_staff # Some(TRUE) \/ defaulted.is_superuser # Some(TRUE)
        THEN [raised |-> Some("ValueError"), doc |-> None, store |-> store]
        ELSE create_user(email, password, salt, defaulted, store, t, draw)

\* a call of User.create_user; user and db follow the account it created
CreateUser(email, password, salt, user_type, draw) ==
    /\ LET r == create_user(email, password, salt, ExtraFields(Some(user_type), None, None),
                            db, now, draw)
       IN  /\ user' = IF r.raised = None THEN r.doc[1] ELSE user
           /\ db' = r.store
           /\ result' = [op |-> "create_user", raised |-> r.raised # None, error |-> r.raised,
                         value |-> IF r.raised = None THEN r.doc ELSE None]
    /\ UNCHANGED <<setup, inflight, now, sessions, login_attempts, user_login, settings, request, response>>

\* a call of User.create_superuser
CreateSuperuser(email, password, salt, extra_fields, draw) ==
    /\ LET r == create_superuser(email, password, salt, extra_fields, db, now, draw)
       IN  /\ user' = IF r.raised = None THEN r.doc[1] ELSE user
           /\ db' = r.store
           /\ result' = [op |-> "create_superuser", raised |-> r.raised # None, error |-> r.raised,
                         value |-> IF r.raised = None THEN r.doc ELSE None]
    /\ UNCHANGED <<setup, inflight, now, sessions, login_attempts, user_login, settings, request, response>>

InitAccounts == InitSignup

NextAccounts ==
    \/ \E email \in CreateEmails, password \in Passwords,
          user_type \in UserTypes, draw \in FreeCodes(db) :
          CreateUser(email, password, 1, user_type, draw)
    \/ \E email \in CreateEmails, password \in Passwords,
          extra_user_type \in SuperuserTypes, draw \in FreeCodes(db) :
          CreateSuperuser(email, password, 1, ExtraFields(extra_user_type, None, None), draw)
    \/ \E raw_password \in Passwords : SetPassword(raw_password, 2)
    \/ \E draw \in FreeCodes(db) : GenerateEmailVerificationToken("t1", draw)
    \/ \E password \in Passwords : Signup(Email_A_x, Email_A_x, password, 1)

SpecAccounts == InitAccounts /\ [][NextAccounts]_vars

\* C17: the password field of every stored account, User or UserLogin, holds
\* a hash and never one of the passwords handed to create_user,
\* create_superuser or the signup view.
C17_NoPlaintextStored ==
    /\ db # None => /\ db[1].password \notin Passwords
                    /\ \E raw_password \in Passwords, salt \in Salts :
                          db[1].password = make_password(raw_password, salt)
    /\ \A u \in user_login :
          /\ u.password \notin Passwords
          /\ \E password \in Passwords, salt \in Salts :
                u.password = generate_password_hash(password, salt)

\* create_superuser has stored an admin account with password "pw2" and the
\* signup view has stored a UserLogin
C17_Witness ==
    /\ result.op = "create_superuser"
    /\ ~result.raised
    /\ db # None
    /\ db[1].user_type = "admin"
    /\ check_password("pw2", db[1].password)
    /\ user_login # {}


\* C20: a stored account carries a referral code exactly when its user_type
\* is customer, from its first save on and after every later save.
C20_ReferralCodeIffCustomer ==
    db # None => ((db[1].user_type = "customer") <=> (db[1].profile.referral_code # None))

\* create_user has just stored a vendor account, without a referral code, and
\* a later save went through the pre_save handlers and clean
C20_Witness ==
    /\ db # None
    /\ db[1].user_type = "vendor"
    /\ db[1].email = Email_b_x
    /\ db[1].profile.referral_code = None
    /\ result.op = "generate_email_verification_token"
    /\ ~result.raised


\* ------------------------------------------------------------ token issuing
TokenMaxTime == 3

UserIds == {1, 2}

\* what the environment holds for SECRET_KEY: nothing, the empty string, a key
EnvSecretKeys == {None, Some(""), Some("k1")}

\* what the settings module holds for JWT_EXPIRATION_SECONDS: nothing, or a
\* lifetime, in units of time
ExpirationSettings == {None, Some(1), Some(2)}

\* a call of generate_jwt(user_id)
GenerateJwt(user_id) ==
    /\ LET jwt == generate_jwt(user_id, settings, now)
       IN  result' = [op |-> "generate_jwt", raised |-> jwt.raised, error |-> jwt.error,
                      value |-> jwt.token]
    /\ UNCHANGED <<setup, inflight, now, user, db, sessions, login_attempts, user_login, settings,
                   request, response>>

TokenTick ==
    /\ now < TokenMaxTime
    /\ now' = now + 1
    /\ UNCHANGED <<setup, inflight, user, db, result, sessions, login_attempts, user_login, settings,
                   request, response>>

InitToken ==
    /\ now = 0
    /\ user = NewUser(Email_a_x, "customer", 0)
    /\ db = Some(user)
    /\ result = NoResult
    /\ sessions = <<>>
    /\ login_attempts = EmptyBag
    /\ user_login = {}
    /\ \E env_secret_key \in EnvSecretKeys, jwt_expiration_seconds \in ExpirationSettings :
          settings = Settings(env_secret_key, jwt_expiration_seconds)
    /\ request = NoRequest
    /\ response = NoRequest
    /\ inflight = <<>>
    /\ setup = NoSetup

NextToken ==
    \/ \E user_id \in UserIds : GenerateJwt(user_id)
    \/ TokenTick

SpecToken == InitToken /\ [][NextToken]_vars

\* a token that generate_jwt returned carries the time of the call as iat and
\* that time plus JWT_EXPIRATION_SECONDS as exp
TokenExpiryIsIssuePlusLifetime ==
    [][\A user_id \in UserIds :
          (GenerateJwt(user_id) /\ ~result'.raised)
          => /\ result'.value[1].user_id = user_id
             /\ result'.value[1].iat = now
             /\ result'.value[1].exp = now + settings.JWT_EXPIRATION_SECONDS[1]]_vars

\* C19: generate_jwt raises, and returns no token, whenever SECRET_KEY is
\* unset in the environment (the settings then hold the default) or empty.
C19_NoKeyNoToken ==
    [][\A user_id \in UserIds :
          (GenerateJwt(user_id) /\ settings.SECRET_KEY \in {"", DefaultSecretKey})
          => (result'.raised /\ result'.value = None)]_vars


\* ------------------------------------------------------------ referral codes
ReferralMaxTime == 2

\* a call of user.profile.generate_referral_code(): changes the object, does
\* not save; returns self.referral_code
GenerateReferralCode(draw) ==
    /\ user' = [user EXCEPT !.profile = generate_referral_code(user.profile, draw)]
    /\ result' = [op |-> "generate_referral_code", raised |-> FALSE,
                  value |-> user'.profile.referral_code]
    /\ UNCHANGED <<setup, inflight, now, db, sessions, login_attempts, user_login, settings,
                   request, response>>

\* a call of user.clean(): changes the object, does not save
Clean(draw) ==
    /\ user' = clean(user, now, draw)
    /\ result' = [op |-> "clean", raised |-> FALSE, value |-> None]
    /\ UNCHANGED <<setup, inflight, now, db, sessions, login_attempts, user_login, settings,
                   request, response>>

\* a call of user.save()
Save(draw) ==
    /\ LET s == save(user, db, now, draw)
       IN  /\ user' = s.doc
           /\ db' = s.store
           /\ result' = [op |-> "save", raised |-> s.raised, value |-> None]
    /\ UNCHANGED <<setup, inflight, now, sessions, login_attempts, user_login, settings,
                   request, response>>

ReferralTick ==
    /\ now < ReferralMaxTime
    /\ now' = now + 1
    /\ UNCHANGED <<setup, inflight, user, db, result, sessions, login_attempts, user_login, settings,
                   request, response>>

InitReferral == InitAddress

NextReferral ==
    \/ \E draw \in FreeCodes(db) : GenerateReferralCode(draw)
    \/ \E draw \in FreeCodes(db) : Clean(draw)
    \/ \E draw \in FreeCodes(db) : Save(draw)
    \/ ReferralTick

SpecReferral == InitReferral /\ [][NextReferral]_vars

\* C21: once the profile's referral_code is set, no call of
\* generate_referral_code, clean or save changes it, in the object or in the
\* stored copy, and generate_referral_code returns the code that was set.
C21_ReferralCodeSetOnce ==
    [][/\ user.profile.referral_code # None
          => user'.profile.referral_code = user.profile.referral_code
       /\ (db # None /\ db[1].profile.referral_code # None)
          => (db' # None /\ db'[1].profile.referral_code = db[1].profile.referral_code)
       /\ \A draw \in FreeCodes(db) :
             (GenerateReferralCode(draw) /\ user.profile.referral_code # None)
             => result'.value = user.profile.referral_code]_vars

\* time has passed since the code was set, the account was saved again, and a
\* further generate_referral_code returned the code the account started with
C21_Witness ==
    /\ now > 0
    /\ db # None
    /\ db[1].updated_at > 0
    /\ db[1].profile.referral_code = Some("RC1")
    /\ result = [op |-> "generate_referral_code", raised |-> FALSE, value |-> Some("RC1")]


\* ------------------------------------------------------------ referral code uniqueness
CodesMaxTime == 1

MaxDraws == 2

\* "c@x" as character codes
Email_c_x == <<99, 64, 120>>

CodeEmails == {Email_A_x, Email_b_x, Email_c_x}

\* the candidate codes secrets.choice produces, in the order they are drawn
DrawSequences == UNION {[1..n -> ReferralCodes] : n \in 1..MaxDraws}

\* a redraw loop that keeps its first candidate
redraw_first(store, draws) == Some(draws[1])

\* the loop of generate_referral_code, lines 72-76, over the candidates drawn:
\* the first candidate no stored account holds; None while the candidates so
\* far were all held and the loop is still running
RECURSIVE redraw(_, _)
redraw(store, draws) ==
    IF draws = <<>>
    THEN None
    ELSE IF Head(draws) \in HeldCodes(store)
    THEN redraw(store, Tail(draws))
    ELSE Some(Head(draws))

\* the write of a new User document: email is unique (line 99) and so is
\* profile.referral_code (line 58); that index is not sparse, so documents
\* without a code all hold the same missing value
insert_user(collection, doc) ==
    IF \E i \in DOMAIN collection :
          \/ collection[i].email = doc.email
          \/ collection[i].profile.referral_code = doc.profile.referral_code
    THEN [raised |-> TRUE, collection |-> collection]
    ELSE [raised |-> FALSE, collection |-> Append(collection, doc)]

\* a call of User.create_user against the users collection; draws are the
\* candidates the redraw loop goes through
CreateAccount(email, user_type, draws) ==
    /\ redraw(db, draws) # None
    /\ LET r == create_user(email, "pw1", 1, ExtraFields(Some(user_type), None, None), None, now,
                            redraw(db, draws)[1])
           w == insert_user(db, r.doc[1])
       IN  /\ db' = w.collection
           /\ user' = IF w.raised THEN user ELSE r.doc[1]
           /\ result' = [op |-> "create_user", raised |-> w.raised, value |-> None,
                         draws |-> draws]
    /\ UNCHANGED <<setup, inflight, now, sessions, login_attempts, user_login, settings,
                   request, response>>

CodesTick ==
    /\ now < CodesMaxTime
    /\ now' = now + 1
    /\ UNCHANGED <<setup, inflight, user, db, result, sessions, login_attempts, user_login, settings,
                   request, response>>

InitCodes == InitAddress

NextCodes ==
    \/ \E email \in CodeEmails, user_type \in UserTypes, draws \in DrawSequences :
          CreateAccount(email, user_type, draws)
    \/ CodesTick

SpecCodes == InitCodes /\ [][NextCodes]_vars

\* C22: the referral codes of the stored accounts are pairwise distinct, and
\* a creation whose first candidate is held by a stored account goes on to a
\* candidate that no stored account holds and stores the customer under it.
C22_CodesPairwiseDistinct ==
    [][/\ \A i, j \in DOMAIN db' :
             (i # j /\ db'[i].profile.referral_code # None)
             => db'[i].profile.referral_code # db'[j].profile.referral_code
       /\ \A email \in CodeEmails, draws \in DrawSequences :
             (/\ CreateAccount(email, "customer", draws)
              /\ draws[1] \in HeldCodes(db)
              /\ \A i \in DOMAIN db : db[i].email # Lower(email))
             => /\ ~result'.raised
                /\ Len(db') = Len(db) + 1
                /\ db'[Len(db')].profile.referral_code # None
                /\ db'[Len(db')].profile.referral_code[1] \notin HeldCodes(db)]_vars

\* two customers are stored; the second one's first candidate was the first
\* one's code and the loop went on to another
C22_Witness ==
    /\ Len(db) = 2
    /\ db[1].user_type = "customer"
    /\ db[2].user_type = "customer"
    /\ result.op = "create_user"
    /\ ~result.raised
    /\ result.draws[1] = db[1].profile.referral_code[1]
    /\ db[2].profile.referral_code # db[1].profile.referral_code


\* ------------------------------------------------------------ get_default_address as a function
MaxListed == 3

\* the address lists a loaded account may carry: any flags, ids in list order
AddressLists ==
    UNION {{[i \in 1..n |-> [id |-> i, is_default |-> flags[i], valid |-> TRUE]] :
               flags \in [1..n -> BOOLEAN]} : n \in 0..MaxListed}

InitDefaultAddress ==
    /\ now = 0
    /\ \E ut \in UserTypes, addresses \in AddressLists :
          user = [NewUser(Email_a_x, ut, 0) EXCEPT !.addresses = addresses]
    /\ db = Some(user)
    /\ result = NoResult
    /\ sessions = <<>>
    /\ login_attempts = EmptyBag
    /\ user_login = {}
    /\ settings = Settings(None, None)
    /\ request = NoRequest
    /\ response = NoRequest
    /\ inflight = <<>>
    /\ setup = NoSetup

NextDefaultAddress ==
    \/ GetDefaultAddress
    \/ \E raw_password \in Passwords, salt \in Salts : SetPassword(raw_password, salt)

SpecDefaultAddress == InitDefaultAddress /\ [][NextDefaultAddress]_vars

\* C24: get_default_address answers with the first address of the list that
\* is flagged, with the first address when none is flagged, with None when
\* the list is empty, and changes neither the object nor the stored account.
C24_FirstFlaggedElseFirst ==
    [][GetDefaultAddress
       => /\ user' = user
          /\ db' = db
          /\ \A i \in DOMAIN user.addresses :
                (user.addresses[i].is_default /\ \A j \in 1..(i - 1) : ~user.addresses[j].is_default)
                => result'.value = Some(user.addresses[i].id)
          /\ (user.addresses # <<>> /\ \A i \in DOMAIN user.addresses : ~user.addresses[i].is_default)
             => result'.value = Some(user.addresses[1].id)
          /\ user.addresses = <<>> => result'.value = None]_vars

\* the list holds three addresses, the second and third flagged, and the call
\* answered with the second
C24_Witness ==
    /\ Len(user.addresses) = 3
    /\ ~user.addresses[1].is_default
    /\ user.addresses[2].is_default
    /\ user.addresses[3].is_default
    /\ result = [op |-> "get_default_address", raised |-> FALSE, value |-> Some(2)]


\* ------------------------------------------------------------ password reset
ResetMaxTime == 2

\* timedelta(hours=24), in hours
ResetTokenHours == 24

\* the address data tried here: one that validates, one that does not
ResetAddressData == {[is_default |-> None, valid |-> TRUE], [is_default |-> None, valid |-> FALSE]}

\* a generate_password_reset_token that extends no expiry already set
generate_password_reset_token_keep_expiry(u, token, t) ==
    [u EXCEPT !.password_reset_token = Some(token),
              !.password_reset_expires = IF @ = None THEN Some(t + ResetTokenHours) ELSE @]

\* User.generate_password_reset_token up to the save: the in-memory change
generate_password_reset_token(u, token, t) ==
    [u EXCEPT !.password_reset_token = Some(token),
              !.password_reset_expires = Some(t + ResetTokenHours)]

\* a call of User.generate_password_reset_token; tok is what
\* secrets.token_urlsafe(32) returns; an exception of save leaves the call
\* without a return value
GeneratePasswordResetToken(tok, draw) ==
    /\ LET s == save(generate_password_reset_token(user, tok, now), db, now, draw)
       IN  /\ user' = s.doc
           /\ db' = s.store
           /\ result' = [op |-> "generate_password_reset_token", raised |-> s.raised,
                         value |-> IF s.raised THEN None ELSE Some(tok)]
    /\ UNCHANGED <<setup, inflight, now, sessions, login_attempts, user_login, settings, request, response>>

ResetTick ==
    /\ now < ResetMaxTime
    /\ now' = now + 1
    /\ UNCHANGED <<setup, inflight, user, db, result, sessions, login_attempts, user_login, settings,
                   request, response>>

InitReset == InitAddress

NextReset ==
    \/ \E tok \in Tokens, draw \in FreeCodes(db) : GeneratePasswordResetToken(tok, draw)
    \/ \E address_data \in ResetAddressData, draw \in FreeCodes(db) : AddAddress(address_data, draw)
    \/ ResetTick

SpecReset == InitReset /\ [][NextReset]_vars

\* C25: after a generate_password_reset_token that returned, the stored
\* password_reset_token is the token returned and the stored
\* password_reset_expires is the time of the call plus 24 hours, whatever
\* token and expiry were stored before; the account holds one token.
C25_ResetTokenStoredWithExpiry ==
    [][\A tok \in Tokens, draw \in FreeCodes(db) :
          (GeneratePasswordResetToken(tok, draw) /\ ~result'.raised)
          => /\ result'.value = Some(tok)
             /\ db' # None
             /\ db'[1].password_reset_token = result'.value
             /\ db'[1].password_reset_expires = Some(now + ResetTokenHours)
             /\ user' = db'[1]]_vars

\* a request at time 2 replaced the token and the expiry of an earlier request
C25_Witness ==
    /\ now = 2
    /\ result = [op |-> "generate_password_reset_token", raised |-> FALSE, value |-> Some("t2")]
    /\ db # None
    /\ db[1].password_reset_token = Some("t2")
    /\ db[1].password_reset_expires = Some(2 + ResetTokenHours)
    /\ db[1].updated_at = 2


\* ------------------------------------------------------------ concurrent add_address
\* the is_default values the concurrent callers ask for
RaceAddressData == {[is_default |-> d, valid |-> TRUE] : d \in {None, Some(TRUE), Some(FALSE)}}

\* a caller loads its own copy of the account and is about to call add_address
AddressLoad(address_data) ==
    /\ Len(inflight) < MaxInflight
    /\ inflight' = Append(inflight, [pc |-> "modify", copy |-> db[1], address_data |-> address_data])
    /\ UNCHANGED <<setup, now, user, db, result, sessions, login_attempts, user_login, settings,
                   request, response>>

\* add_address lines 203-212 on the caller's copy
AddressModify(i) ==
    /\ inflight[i].pc = "modify"
    /\ inflight' = [inflight EXCEPT ![i].pc = "save",
                                    ![i].copy = add_address(@, inflight[i].address_data)]
    /\ UNCHANGED <<setup, now, user, db, result, sessions, login_attempts, user_login, settings,
                   request, response>>

\* add_address line 213: self.save() writes the copy's address list
AddressSave(i, draw) ==
    /\ inflight[i].pc = "save"
    /\ LET s == save(inflight[i].copy, db, now, draw)
       IN  /\ db' = s.store
           /\ inflight' = [inflight EXCEPT ![i].pc = "done", ![i].copy = s.doc]
    /\ UNCHANGED <<setup, now, user, result, sessions, login_attempts, user_login, settings,
                   request, response>>

\* the stored account has no address or one address, the default
InitAddressRace ==
    /\ now = 0
    /\ \E addresses \in {<<>>, <<[id |-> 1, is_default |-> TRUE, valid |-> TRUE]>>} :
          user = [NewUser(Email_a_x, "customer", 0) EXCEPT !.addresses = addresses]
    /\ db = Some(user)
    /\ result = NoResult
    /\ sessions = <<>>
    /\ login_attempts = EmptyBag
    /\ user_login = {}
    /\ settings = Settings(None, None)
    /\ request = NoRequest
    /\ response = NoRequest
    /\ inflight = <<>>
    /\ setup = NoSetup

NextAddressRace ==
    \/ \E address_data \in RaceAddressData : AddressLoad(address_data)
    \/ \E i \in DOMAIN inflight : AddressModify(i)
    \/ \E i \in DOMAIN inflight, draw \in FreeCodes(db) : AddressSave(i, draw)

SpecAddressRace == InitAddressRace /\ [][NextAddressRace]_vars

\* C27: however concurrent add_address calls, each on its own loaded copy,
\* interleave, the stored account never has more than one address with
\* is_default true and never a non-empty address list without one.
C27_StoredDefaultSurvivesRace ==
    \A k \in DOMAIN db :
        /\ DefaultCount(db[k].addresses) <= 1
        /\ db[k].addresses # <<>> => DefaultCount(db[k].addresses) >= 1

\* two callers loaded the same one-address account, both added an address
\* with is_default true asked for, and both saved
C27_Witness ==
    /\ Len(inflight) = 2
    /\ inflight[1].pc = "done"
    /\ inflight[2].pc = "done"
    /\ Len(inflight[1].copy.addresses) = 2
    /\ Len(inflight[2].copy.addresses) = 2
    /\ inflight[1].address_data.is_default = Some(TRUE)
    /\ inflight[2].address_data.is_default = Some(TRUE)
    /\ Len(db[1].addresses) = 2


\* ------------------------------------------------------------ the factories' checks
\* a flag as the caller may pass it: not at all, True, False
PassedFlags == {None, Some(TRUE), Some(FALSE)}

FactoryExtraFields ==
    {ExtraFields(user_type, is_staff, is_superuser) :
        user_type \in SuperuserTypes, is_staff \in PassedFlags, is_superuser \in PassedFlags}

InitFactory == InitAddress

NextFactory ==
    \/ \E email \in CreateEmails, user_type \in UserTypes, draw \in FreeCodes(db) :
          CreateUser(email, "pw1", 1, user_type, draw)
    \/ \E email \in CreateEmails, extra_fields \in FactoryExtraFields, draw \in FreeCodes(db) :
          CreateSuperuser(email, "pw1", 1, extra_fields, draw)
    \/ \E draw \in FreeCodes(db) : GenerateEmailVerificationToken("t1", draw)

SpecFactory == InitFactory /\ [][NextFactory]_vars

\* C29: create_user with an empty email raises ValueError and stores
\* nothing; create_superuser with is_staff or is_superuser passed as False
\* raises ValueError and stores nothing; an account create_superuser stored
\* has is_staff and is_superuser true and user_type admin, or the role passed.
C29_FactoryChecks ==
    [][/\ \A user_type \in UserTypes, draw \in FreeCodes(db) :
             CreateUser(<<>>, "pw1", 1, user_type, draw)
             => (result'.error = Some("ValueError") /\ db' = db /\ user' = user)
       /\ \A email \in CreateEmails, extra_fields \in FactoryExtraFields, draw \in FreeCodes(db) :
             CreateSuperuser(email, "pw1", 1, extra_fields, draw)
             => /\ (extra_fields.is_staff = Some(FALSE) \/ extra_fields.is_superuser = Some(FALSE))
                   => (result'.error = Some("ValueError") /\ db' = db /\ user' = user)
                /\ ~result'.raised
                   => /\ db' = Some(user')
                      /\ user'.is_staff
                      /\ user'.is_superuser
                      /\ user'.user_type = get(extra_fields.user_type, "admin")
                      /\ user'.email = Lower(email)]_vars

\* create_superuser stored an admin whose flags the caller did not pass
C29_Witness ==
    /\ result.op = "create_superuser"
    /\ result.error = None
    /\ db = Some(user)
    /\ user.email = Email_b_x
    /\ user.user_type = "admin"
    /\ user.is_staff
    /\ user.is_superuser
    /\ user.profile.referral_code = None


\* ------------------------------------------------------------ setup scripts
MaxRuns == 3

SetupScripts == {"setup-django.py", "setup-django-mongodb.py"}

\* the steps list of main(), in its order
Steps(script) ==
    IF script = "setup-django.py"
    THEN <<"check_prerequisites", "create_project_structure", "create_virtual_environment",
           "install_requirements", "create_essential_files", "create_database_setup_script">>
    ELSE <<"create_project_structure", "create_django_project", "setup_mongodb_database",
           "create_configuration_files", "create_database_init_script">>

\* the steps that run shell commands through run_command
CommandSteps ==
    {"check_prerequisites", "create_virtual_environment", "install_requirements",
     "create_django_project"}

\* how a step's work can go: "done" (every command exits 0 and prints to
\* stdout; every file is written), "silent" (every command exits 0, one prints
\* nothing to stdout), "error" (a command exits non-zero; a file operation or
\* the MongoDB client raises).  The --version and pip commands print when
\* they succeed; python -m venv, startproject and startapp print nothing.
Outcomes(step) ==
    IF step \in {"create_virtual_environment", "create_django_project"}
    THEN {"silent", "error"}
    ELSE {"done", "error"}

\* run_command: setup-django.py returns True only inside 'if result.stdout'
\* and falls off the end (None) otherwise; setup-django-mongodb.py returns
\* True after any exit status 0; both return False on CalledProcessError
run_command(script, outcome) ==
    IF outcome = "error" THEN "False"
    ELSE IF script = "setup-django.py" /\ outcome = "silent" THEN "None"
    ELSE "True"

\* what a step function returns ("raise": an exception leaves it)
step_return(script, step, outcome) ==
    IF step \in CommandSteps
    THEN (IF run_command(script, outcome) = "True" THEN "True" ELSE "False")
    ELSE IF step = "setup_mongodb_database"
    THEN "True"
    ELSE IF outcome = "error"
    THEN "raise"
    ELSE IF script = "setup-django.py"
    THEN "None"
    ELSE "True"

\* main() up to the steps list: the check of the directory
Main(script) ==
    /\ setup.status # "running"
    /\ setup.runs < MaxRuns
    /\ setup' = IF setup.exists
                THEN [setup EXCEPT !.script = script, !.status = "returned", !.refused = TRUE,
                                   !.step = 0, !.outcomes = <<>>, !.value = Some(FALSE),
                                   !.runs = @ + 1]
                ELSE [setup EXCEPT !.script = script, !.status = "running", !.refused = FALSE,
                                   !.step = 1, !.outcomes = <<>>, !.value = None,
                                   !.runs = @ + 1]
    /\ UNCHANGED <<now, user, db, result, sessions, login_attempts, user_login, settings,
                   request, response, inflight>>

\* one turn of main()'s loop: the step function runs, 'if not function()'
\* decides; after the last step print_next_steps runs and main returns True
Step(outcome) ==
    /\ setup.status = "running"
    /\ outcome \in Outcomes(Steps(setup.script)[setup.step])
    /\ LET step    == Steps(setup.script)[setup.step]
           ret     == step_return(setup.script, step, outcome)
           created == step = "create_project_structure" \/ (step = "create_django_project" /\ outcome # "error")
           ran     == [setup EXCEPT !.outcomes = Append(@, outcome),
                                    !.exists = @ \/ created]
       IN  setup' = IF ret = "raise"
                    THEN [ran EXCEPT !.status = "raised"]
                    ELSE IF ret # "True"
                    THEN [ran EXCEPT !.status = "returned", !.value = Some(FALSE)]
                    ELSE IF setup.step = Len(Steps(setup.script))
                    THEN [ran EXCEPT !.status = "returned", !.value = Some(TRUE)]
                    ELSE [ran EXCEPT !.step = @ + 1]
    /\ UNCHANGED <<now, user, db, result, sessions, login_attempts, user_login, settings,
                   request, response, inflight>>

\* the user removes the directory, as main()'s refusal asks
RemoveDirectory ==
    /\ setup.status # "running"
    /\ setup.exists
    /\ setup' = [setup EXCEPT !.exists = FALSE]
    /\ UNCHANGED <<now, user, db, result, sessions, login_attempts, user_login, settings,
                   request, response, inflight>>

InitSetup ==
    /\ now = 0
    /\ user = NewUser(Email_a_x, "customer", 0)
    /\ db = Some(user)
    /\ result = NoResult
    /\ sessions = <<>>
    /\ login_attempts = EmptyBag
    /\ user_login = {}
    /\ settings = Settings(None, None)
    /\ request = NoRequest
    /\ response = NoRequest
    /\ inflight = <<>>
    /\ \E exists \in BOOLEAN : setup = [NoSetup EXCEPT !.exists = exists]

NextSetup ==
    \/ \E script \in SetupScripts : Main(script)
    \/ \E outcome \in {"done", "silent", "error"} : Step(outcome)
    \/ RemoveDirectory

SpecSetup == InitSetup /\ [][NextSetup]_vars

\* C30: main() returns False without running a step when the directory
\* exists; otherwise the steps run in their listed order, none runs after one
\* whose work failed, main returns True exactly when every listed step ran
\* and none failed, and it returns False only when the last step it ran
\* failed.
C30_MainFailsOnlyOnFailedStep ==
    setup.status = "returned"
    => IF setup.refused
       THEN setup.value = Some(FALSE) /\ setup.outcomes = <<>>
       ELSE /\ \A i \in 1..(Len(setup.outcomes) - 1) : setup.outcomes[i] # "error"
            /\ setup.value = Some(TRUE)
               <=> /\ Len(setup.outcomes) = Len(Steps(setup.script))
                   /\ \A i \in DOMAIN setup.outcomes : setup.outcomes[i] # "error"
            /\ setup.value = Some(FALSE)
               => /\ setup.outcomes # <<>>
                  /\ setup.outcomes[Len(setup.outcomes)] = "error"

====
